---- MODULE Spec2Model ----
(***************************************************************************)
(* Client-side audio/session orchestration of the realtime translation     *)
(* app: TranslationService (orchestrator and utterance assembler),         *)
(* AudioSessionManager (audio mode), WebAudioRecordingService (capture),   *)
(* TextToSpeechService (playback) and the socket of OpenAIRealtimeService. *)
(*                                                                         *)
(* JavaScript runs one callback at a time.  Every `await` of the source is *)
(* a suspension point of an asynchronous invocation ("task").  A task      *)
(* suspended on an already settled promise is resumed by a microtask and   *)
(* runs before any timer, socket or hardware callback; a task suspended on *)
(* the platform (getUserMedia, AudioContext.close, a fetch, a timer) is    *)
(* resumed by that platform event.  Spec is the service as the screen      *)
(* drives it: initialize first, then one method per user event.  ApiSpec   *)
(* lets a caller invoke the public methods at any suspension point.        *)
(* StreamSpec is a recording session to which only the server, the timers  *)
(* and the audio hardware speak.  GatewaySpec is OpenAIRealtimeService     *)
(* alone, its methods invoked in any order.  ManagerSpec is                *)
(* AudioSessionManager alone, on either platform, one call at a time.      *)
(*                                                                         *)
(* The application runs with Platform.OS = 'web': the native capture       *)
(* service throws 'not implemented in this build'.                         *)
(***************************************************************************)
EXTENDS Bags, FiniteSets, Integers, Sequences, TLC

\* ---- bounds -----------------------------------------------------------
MaxTasks == 2      \* asynchronous invocations in flight at once
MaxChunks == 2     \* audio deltas accumulated in one turn
MaxTextLen == 1    \* text deltas appended to one text field
MaxClips == 2      \* buffer sources started and not yet reported ended
MaxCommands == 3   \* public method invocations in one run
MaxInbound == 4    \* inbound socket messages in one run
MaxStream == 5     \* inbound socket messages in one run of StreamSpec
MaxCalls == 4      \* gateway method invocations in one run of GatewaySpec
MaxSent == 2       \* outbound messages logged on one socket
MaxPcm == 3        \* bytes in one captured PCM chunk
chunkSize == 2     \* bytes per encode sub-chunk (0x8000 in the source)
MaxStack == 3      \* nested calls the engine's call stack holds
MaxRequests == 5   \* requests the backend receives
MaxNow == 4        \* milliseconds the backend's clock advances
windowMs == 2      \* config.rateLimit.windowMs (900000 by default)
maxRequests == 2   \* config.rateLimit.maxRequests (100 by default)

\* ---- program constants --------------------------------------------------
MinPlayableSamples == 240

\* ---- input alphabets ----------------------------------------------------
\* an audio delta is identified by its decoded length in 16-bit samples
AudioDeltas == {120, 240}
TextDeltas == {"Hello"}
TimerIds == {1, 2}
NoTimer == 0

\* byte values of a captured chunk
Bytes == {0, 90, 255}

AudioMode == {"recording", "playback", "duplex", "idle"}

VARIABLES
  state,                \* TranslationService.state (the UI snapshot)
  audioChunks,          \* TranslationService.audioChunks
  isAccumulatingAudio,  \* TranslationService.isAccumulatingAudio
  responseTimeout,      \* TranslationService.responseTimeout (timer handle)
  armedTimeouts,        \* finalize-timeouts pending in the event loop
  rec,                  \* WebAudioRecordingService fields
  hw,                   \* live microphone streams / capture audio contexts
  tts,                  \* TextToSpeechService fields
  clips,                \* buffer sources that are sounding
  ended,                \* stopped sources whose onended is still queued
  speech,               \* expo-speech is speaking
  asm,                  \* AudioSessionManager fields
  ws,                   \* OpenAIRealtimeService.ws and its readyState
  tasks,                \* bag of suspended asynchronous invocations
  wire,                 \* what was sent on the socket, and its close() calls
  caller,               \* who drives the run: "ui", "api", "server",
                        \* "gateway", "manager" or "client"
  platform,             \* Platform.OS
  requests,             \* the rate limiter's Map: identifier -> entry
  now,                  \* the backend's Date.now()
  responses,            \* what the rate limiter did with each request
  requested,            \* mode of the latest setMode call
  commands,             \* public method invocations so far
  inbound,              \* inbound messages so far
  last                  \* the step taken last

vars == <<state, audioChunks, isAccumulatingAudio, responseTimeout,
          armedTimeouts, rec, hw, tts, clips, ended, speech, asm, ws,
          tasks, wire, caller, platform, requests, now, responses, requested,
          commands, inbound, last>>

serverVars == <<requests, now, responses>>

\* ---- helpers ------------------------------------------------------------
\* { ...this.state, ...updates }
updateState(s, updates) ==
  [k \in DOMAIN s |-> IF k \in DOMAIN updates THEN updates[k] ELSE s[k]]

\* a handleError that leaves isTranslating as it was
handleErrorStateTranslating(s, message) ==
  [k \in DOMAIN s |->
     CASE k = "error" -> message
       [] k \in {"isRecording", "isPlaying"} -> FALSE
       [] OTHER -> s[k]]

\* the state written by handleError
handleErrorState(s, message) ==
  updateState(s, [error |-> message, isRecording |-> FALSE,
                  isTranslating |-> FALSE, isPlaying |-> FALSE])

RECURSIVE SumSamples(_)
SumSamples(chunks) ==
  IF chunks = <<>> THEN 0
  ELSE chunks[1].samples + SumSamples(Tail(chunks))

Task(m, pc, wasRecording, payload) ==
  [m |-> m, pc |-> pc, wasRecording |-> wasRecording, payload |-> payload]

InFlight == BagToSet(tasks)
Spawn(bag, t) == bag (+) SetToBag({t})
Retire(bag, t) == bag (-) SetToBag({t})
Move(bag, t, pc) == Spawn(Retire(bag, t), [t EXCEPT !.pc = pc])

\* suspension points resumed by a microtask
MicroPcs == {"st_init", "st_mode", "sp_after", "pa_stopped", "pa_ttsstop",
             "pa_played", "pa_failed", "rt_started", "sk_init", "sk_mode",
             "sk_ttsstop", "sk_spoken", "sk_failed", "sk_init2",
             "sh_cleaned", "sh_tts", "sh_init", "sh_mode", "in_start",
             "in_init", "in_mode", "in_connected"}

MicroPending == \E t \in InFlight : t.pc \in MicroPcs
\* timers, socket events and hardware callbacks are macrotasks
Macrotask == ~MicroPending
CanSpawn == BagCardinality(tasks) < MaxTasks
\* the screen invokes the methods from event handlers, after initialize
CommandBudget ==
  IF caller \in {"gateway", "manager"} THEN MaxCalls ELSE MaxCommands
CanCommand ==
  /\ commands < CommandBudget
  /\ CanSpawn
  /\ caller = "ui" => Macrotask /\ last # "constructor"
InboundBudget == IF caller = "server" THEN MaxStream ELSE MaxInbound
CanReceive == Macrotask /\ ws = "OPEN" /\ inbound < InboundBudget

\* an outbound message; an input_audio_buffer.append carries the base64
\* text, and the log keeps the bytes sendAudioData was given
AudioMessage(type, audio, pcm) == [type |-> type, audio |-> audio, pcm |-> pcm]
Message(type) == AudioMessage(type, <<>>, <<>>)

\* nothing sent, close() not called
NoSocket == [sent |-> <<>>, closes |-> 0]

\* the addresses requests come from, and the X-Session-ID headers they carry
Ips == {"10.0.0.1", "10.0.0.2"}
SessionIds == {"", "s1"}

\* `req.ip + (req.sessionId || '')`
identifier(ip, sessionId) == <<ip, sessionId>>

\* requests.get(key) of a key the Map does not hold
NoEntry == [count |-> 0, resetTime |-> 0 - 1]

\* `new Map()` in createRateLimiter
NoRequests == [key \in {identifier(ip, id) : ip \in Ips, id \in SessionIds}
                 |-> NoEntry]

\* the TranslationService constructor, beside a backend that just started
Constructed ==
  /\ state = [isRecording |-> FALSE, isTranslating |-> FALSE,
              isPlaying |-> FALSE, currentText |-> <<>>,
              translatedText |-> <<>>, error |-> "null"]
  /\ audioChunks = <<>>
  /\ isAccumulatingAudio = FALSE
  /\ responseTimeout = NoTimer
  /\ armedTimeouts = {}
  /\ rec = [isRecording |-> FALSE, stream |-> FALSE, audioContext |-> FALSE,
            analyser |-> FALSE, processor |-> FALSE]
  /\ hw = [mic |-> 0, ctx |-> 0]
  /\ tts = [isPlaying |-> FALSE, currentSound |-> FALSE]
  /\ clips = 0
  /\ ended = 0
  /\ speech = FALSE
  /\ asm = [currentMode |-> "idle", isInitialized |-> FALSE]
  /\ ws = "null"
  /\ wire = NoSocket
  /\ tasks = EmptyBag
  /\ requested = "idle"
  /\ commands = 0
  /\ inbound = 0
  /\ last = "constructor"
  /\ requests = NoRequests
  /\ now = 0
  /\ responses = <<>>

\* the service as TranslationScreen drives it
Init == Constructed /\ caller = "ui" /\ platform = "web"

\* the service driven by a caller that does not wait between its calls
ApiInit == Constructed /\ caller = "api" /\ platform = "web"

turnVars == <<audioChunks, isAccumulatingAudio, responseTimeout,
              armedTimeouts>>
captureVars == <<rec, hw>>
playVars == <<tts, clips, ended, speech>>
modeVars == <<asm, requested>>

\* the prior turn's timeout left armed
clearTimeoutSkipped(armed, handle) == armed

\* clearTimeout(handle): a handle that is null or has fired cancels nothing
clearTimeout(armed, handle) == armed \ {handle}

\* setTimeout returns a handle that is not in use
newTimeout(armed, handle) ==
  CHOOSE id \in TimerIds : id \notin armed /\ id # handle

\* handleError apart from the state it writes: the timeout is cancelled and
\* the accumulated audio dropped
handleError ==
  /\ armedTimeouts' = IF responseTimeout # NoTimer
                      THEN clearTimeout(armedTimeouts, responseTimeout)
                      ELSE armedTimeouts
  /\ responseTimeout' = NoTimer
  /\ audioChunks' = <<>>
  /\ isAccumulatingAudio' = FALSE

\* ---- AudioSessionManager ------------------------------------------------
\* setMode below the initialization check: a no-op in the current mode,
\* else (web) currentMode = mode
setModeApply(a, mode) ==
  IF a.currentMode = mode THEN a ELSE [a EXCEPT !.currentMode = mode]

\* setMode up to its first suspension: an uninitialized manager calls
\* initialize (web: isInitialized = true) and awaits it
setMode(a, mode) ==
  IF ~a.isInitialized THEN [a EXCEPT !.isInitialized = TRUE]
  ELSE setModeApply(a, mode)

\* where a caller of setMode is suspended
setModePc(a, pcInit, pcMode) == IF ~a.isInitialized THEN pcInit ELSE pcMode

\* the setMode calls that can be suspended on `await this.initialize()`
SetModeCalls ==
  [st_init |-> [mode |-> "recording", next |-> "st_mode"],
   sk_init |-> [mode |-> "playback", next |-> "sk_mode"],
   sk_init2 |-> [mode |-> "idle", next |-> "end"],
   sh_init |-> [mode |-> "idle", next |-> "sh_mode"],
   in_init |-> [mode |-> "duplex", next |-> "in_mode"]]

\* setMode resumes after `await this.initialize()`
setMode_initialized ==
  \E t \in InFlight :
    /\ t.pc \in DOMAIN SetModeCalls
    /\ asm' = setModeApply(asm, SetModeCalls[t.pc].mode)
    /\ tasks' = IF SetModeCalls[t.pc].next = "end" THEN Retire(tasks, t)
                ELSE Move(tasks, t, SetModeCalls[t.pc].next)
    /\ UNCHANGED <<caller, platform, serverVars, wire>>
    /\ last' = "setMode_initialized"
    /\ UNCHANGED <<state, turnVars, captureVars, playVars, ws, requested,
                   commands, inbound>>

\* ---- WebAudioRecordingService -------------------------------------------
\* stopRecording up to `await this.audioContext.close()` or, without an
\* audio context, to its end
stopRecordingBegin(r) ==
  IF ~r.isRecording THEN r
  ELSE IF r.audioContext
       THEN [r EXCEPT !.isRecording = FALSE, !.processor = FALSE,
                      !.analyser = FALSE]
       ELSE [r EXCEPT !.isRecording = FALSE, !.processor = FALSE,
                      !.analyser = FALSE, !.stream = FALSE]

\* stopRecording is suspended on audioContext.close()
stopRecordingCloses(r) == r.isRecording /\ r.audioContext

\* tracks stopped by the synchronous part of stopRecording
stopRecordingBeginHw(r, h) ==
  IF r.isRecording /\ ~r.audioContext /\ r.stream
  THEN [h EXCEPT !.mic = h.mic - 1] ELSE h

AfterClose == [sp_close |-> "sp_after", pa_close |-> "pa_stopped",
               sh_close |-> "sh_cleaned"]

\* audioContext.close() resolved: the rest of stopRecording
stopRecording_closed ==
  \E t \in InFlight :
    /\ Macrotask
    /\ t.pc \in DOMAIN AfterClose
    /\ rec' = [rec EXCEPT !.audioContext = FALSE, !.stream = FALSE]
    /\ hw' = [mic |-> IF rec.stream THEN hw.mic - 1 ELSE hw.mic,
              ctx |-> hw.ctx - 1]
    /\ tasks' = Move(tasks, t, AfterClose[t.pc])
    /\ UNCHANGED <<caller, platform, serverVars, wire>>
    /\ last' = "stopRecording_closed"
    /\ UNCHANGED <<state, turnVars, playVars, modeVars, ws, commands,
                   inbound>>

\* the microphone was granted: the rest of startRecording
startRecording_granted ==
  \E t \in InFlight :
    /\ Macrotask
    /\ t.pc \in {"st_gum", "rt_gum"}
    /\ rec' = [isRecording |-> TRUE, stream |-> TRUE, audioContext |-> TRUE,
               analyser |-> TRUE, processor |-> TRUE]
    /\ hw' = [mic |-> hw.mic + 1, ctx |-> hw.ctx + 1]
    /\ IF t.pc = "rt_gum"
       THEN tasks' = Move(tasks, t, "rt_started")
       ELSE tasks' = Retire(tasks, t)
    /\ UNCHANGED <<caller, platform, serverVars, wire>>
    /\ last' = "startRecording_granted"
    /\ UNCHANGED <<state, turnVars, playVars, modeVars, ws, commands,
                   inbound>>

\* the microphone was granted and creating the AudioContext threw
startRecording_contextFails ==
  \E t \in InFlight :
    /\ Macrotask
    /\ t.pc \in {"st_gum", "rt_gum"}
    /\ rec' = [rec EXCEPT !.stream = TRUE]
    /\ hw' = [hw EXCEPT !.mic = hw.mic + 1]
    /\ tasks' = Retire(tasks, t)
    /\ IF t.pc = "st_gum"
       THEN /\ handleError
            /\ state' = updateState(handleErrorState(state, "AudioContext"),
                                    [isRecording |-> FALSE])
       ELSE UNCHANGED <<state, turnVars>>
    /\ UNCHANGED <<caller, platform, serverVars, wire>>
    /\ last' = IF t.pc = "st_gum" THEN "startTranslation_failed"
               ELSE "startRecording_contextFails"
    /\ UNCHANGED <<playVars, modeVars, ws, commands, inbound>>

\* getUserMedia rejected
startRecording_denied ==
  \E t \in InFlight :
    /\ Macrotask
    /\ t.pc \in {"st_gum", "rt_gum"}
    /\ tasks' = Retire(tasks, t)
    /\ IF t.pc = "st_gum"
       THEN /\ handleError
            /\ state' = updateState(handleErrorState(state, "NotAllowed"),
                                    [isRecording |-> FALSE])
       ELSE UNCHANGED <<state, turnVars>>
    /\ UNCHANGED <<caller, platform, serverVars, wire>>
    /\ last' = IF t.pc = "st_gum" THEN "startTranslation_failed"
               ELSE "startRecording_denied"
    /\ UNCHANGED <<captureVars, playVars, modeVars, ws, commands, inbound>>

\* ---- TranslationService: start / stop -----------------------------------
\* startTranslation without its early return
translationInProgressUnchecked(s) == FALSE

\* `if (this.state.isRecording)`: translation already in progress
translationInProgress(s) == s.isRecording

\* startTranslation up to `await this.audioSessionManager.setMode(...)`
startTranslation ==
  /\ CanCommand
  /\ commands' = commands + 1
  /\ UNCHANGED <<caller, platform, serverVars, wire>>
  /\ last' = "startTranslation"
  /\ IF translationInProgress(state)
     THEN UNCHANGED <<asm, requested, tasks>>
     ELSE /\ asm' = setMode(asm, "recording")
          /\ requested' = "recording"
          /\ tasks' = Spawn(tasks, Task("startTranslation",
                              setModePc(asm, "st_init", "st_mode"),
                              FALSE, <<>>))
  /\ UNCHANGED <<state, turnVars, captureVars, playVars, ws, inbound>>

\* startTranslation after setMode: updateState, then startRecording up to
\* getUserMedia
startTranslation_mode ==
  \E t \in InFlight :
    /\ t.pc = "st_mode"
    /\ state' = updateState(state, [isRecording |-> TRUE, error |-> "null",
                                    currentText |-> <<>>,
                                    translatedText |-> <<>>])
    /\ IF rec.isRecording
       THEN tasks' = Retire(tasks, t)
       ELSE tasks' = Move(tasks, t, "st_gum")
    /\ UNCHANGED <<caller, platform, serverVars, wire>>
    /\ last' = "startTranslation_mode"
    /\ UNCHANGED <<turnVars, captureVars, playVars, modeVars, ws, commands,
                   inbound>>

\* stopTranslation up to the suspension of `await stopRecording()`
stopTranslation ==
  /\ CanCommand
  /\ commands' = commands + 1
  /\ UNCHANGED <<caller, platform, serverVars, wire>>
  /\ last' = "stopTranslation"
  /\ rec' = stopRecordingBegin(rec)
  /\ hw' = stopRecordingBeginHw(rec, hw)
  /\ tasks' = Spawn(tasks, Task("stopTranslation",
                      IF stopRecordingCloses(rec) THEN "sp_close"
                      ELSE "sp_after", FALSE, <<>>))
  /\ UNCHANGED <<state, turnVars, playVars, modeVars, ws, inbound>>

\* stopTranslation after stopRecording
stopTranslation_after ==
  \E t \in InFlight :
    /\ t.pc = "sp_after"
    /\ state' = updateState(state, [isRecording |-> FALSE,
                                    isTranslating |-> FALSE,
                                    isPlaying |-> FALSE])
    /\ audioChunks' = <<>>
    /\ isAccumulatingAudio' = FALSE
    /\ armedTimeouts' = IF responseTimeout # NoTimer
                        THEN clearTimeout(armedTimeouts, responseTimeout)
                        ELSE armedTimeouts
    /\ responseTimeout' = NoTimer
    /\ tasks' = Retire(tasks, t)
    /\ UNCHANGED <<caller, platform, serverVars, wire>>
    /\ last' = "stopTranslation_after"
    /\ UNCHANGED <<captureVars, playVars, modeVars, ws, commands,
                   inbound>>

\* ---- TextToSpeechService -------------------------------------------------
\* the handler installed as source.onended
onEnded(p) == [p EXCEPT !.isPlaying = FALSE, !.currentSound = FALSE]

\* stop() after `await Speech.stop()`: stop and drop the current source
ttsStopped(p) == [p EXCEPT !.isPlaying = FALSE, !.currentSound = FALSE]

\* the payload is at least the minimum audible length
playable(payload) == SumSamples(payload) >= MinPlayableSamples

\* playPCMAudio from its call, with the player fields p and c sounding
\* sources: creating the AudioContext throws, or the context has to be
\* resumed or routed first, or the source is started at once
playPCMAudio(base, t, outcome, p, c) ==
  CASE outcome = "throw" ->
         /\ tts' = [p EXCEPT !.isPlaying = FALSE]
         /\ clips' = c
         /\ tasks' = Spawn(base, [t EXCEPT !.pc = "pa_failed"])
    [] outcome = "suspend" ->
         /\ tts' = p
         /\ clips' = c
         /\ tasks' = Spawn(base, [t EXCEPT !.pc = "pa_prepare"])
    [] outcome = "run" ->
         /\ tasks' = Spawn(base, [t EXCEPT !.pc = "pa_played"])
         /\ IF playable(t.payload)
            THEN /\ c + ended < MaxClips
                 /\ tts' = [isPlaying |-> TRUE, currentSound |-> TRUE]
                 /\ clips' = c + 1
            ELSE /\ tts' = p
                 /\ clips' = c

\* playAudioBuffer from its call: a playing controller is stopped first
playAudioBuffer(base, t, outcome) ==
  IF tts.isPlaying
  THEN /\ outcome = "run"
       /\ speech' = FALSE
       /\ tasks' = Spawn(base, [t EXCEPT !.pc = "pa_ttsstop"])
       /\ UNCHANGED <<tts, clips>>
  ELSE /\ playPCMAudio(base, t, outcome, tts, clips)
       /\ UNCHANGED speech

PlayOutcomes == {"run", "suspend", "throw"}

\* playAudioBuffer after `await this.stop()`
playAudioBuffer_stopped ==
  \E t \in InFlight, outcome \in PlayOutcomes :
    /\ t.pc = "pa_ttsstop"
    /\ ended' = IF tts.currentSound THEN ended + 1 ELSE ended
    /\ playPCMAudio(Retire(tasks, t), t, outcome, ttsStopped(tts),
                    IF tts.currentSound THEN clips - 1 ELSE clips)
    /\ UNCHANGED <<caller, platform, serverVars, wire>>
    /\ last' = "playAudioBuffer_stopped"
    /\ UNCHANGED <<state, turnVars, captureVars, speech, modeVars, ws,
                   commands, inbound>>

\* playPCMAudio after the AudioContext was resumed / routed
playPCMAudio_prepared ==
  \E t \in InFlight :
    /\ Macrotask
    /\ t.pc = "pa_prepare"
    /\ playPCMAudio(Retire(tasks, t), t, "run", tts, clips)
    /\ UNCHANGED <<caller, platform, serverVars, wire>>
    /\ last' = "playPCMAudio_prepared"
    /\ UNCHANGED <<state, turnVars, captureVars, ended, speech, modeVars,
                   ws, commands, inbound>>

\* a sounding source reaches its end: onended
source_ended ==
  /\ Macrotask
  /\ clips > 0
  /\ clips' = clips - 1
  /\ tts' = onEnded(tts)
  /\ UNCHANGED <<caller, platform, serverVars, wire>>
  /\ last' = "source_ended"
  /\ UNCHANGED <<state, turnVars, captureVars, ended, speech, modeVars, ws,
                 tasks, commands, inbound>>

\* onended of a source that stop() has stopped
source_stopped_ended ==
  /\ Macrotask
  /\ ended > 0
  /\ ended' = ended - 1
  /\ tts' = onEnded(tts)
  /\ UNCHANGED <<caller, platform, serverVars, wire>>
  /\ last' = "source_stopped_ended"
  /\ UNCHANGED <<state, turnVars, captureVars, clips, speech, modeVars, ws,
                 tasks, commands, inbound>>

\* the speech synthesizer finishes the utterance (no callback is registered)
speech_ended ==
  /\ Macrotask
  /\ speech
  /\ speech' = FALSE
  /\ UNCHANGED <<caller, platform, serverVars, wire>>
  /\ last' = "speech_ended"
  /\ UNCHANGED <<state, turnVars, captureVars, tts, clips, ended, modeVars,
                 ws, tasks, commands, inbound>>

\* ---- TranslationService: playAccumulatedAudio ---------------------------
\* playAccumulatedAudio after `await this.audioService.stopRecording()`
playAccumulatedAudio_stopped ==
  \E t \in InFlight, outcome \in PlayOutcomes :
    /\ t.pc = "pa_stopped"
    /\ state' = updateState(state, [isRecording |-> FALSE,
                                    isPlaying |-> TRUE])
    /\ playAudioBuffer(Retire(tasks, t), t, outcome)
    /\ UNCHANGED <<caller, platform, serverVars, wire>>
    /\ last' = "playAccumulatedAudio_stopped"
    /\ UNCHANGED <<turnVars, captureVars, ended, modeVars, ws, commands,
                   inbound>>

\* playAccumulatedAudio after `await this.ttsService.playAudioBuffer(...)`
playAccumulatedAudio_played ==
  \E t \in InFlight :
    /\ t.pc = "pa_played"
    /\ state' = updateState(state, [isPlaying |-> FALSE])
    /\ tasks' = IF t.wasRecording
                THEN Spawn(Retire(tasks, t),
                           Task("resumeRecording", "rt_wait", TRUE, <<>>))
                ELSE Retire(tasks, t)
    /\ audioChunks' = <<>>
    /\ UNCHANGED <<caller, platform, serverVars, wire>>
    /\ last' = "playAccumulatedAudio_played"
    /\ UNCHANGED <<isAccumulatingAudio, responseTimeout, armedTimeouts,
                   captureVars, playVars, modeVars, ws, commands, inbound>>

\* playAccumulatedAudio's catch after playAudioBuffer rejected
playAccumulatedAudio_failed ==
  \E t \in InFlight :
    /\ t.pc = "pa_failed"
    /\ state' = updateState(state, [isPlaying |-> FALSE])
    /\ tasks' = Retire(tasks, t)
    /\ UNCHANGED <<caller, platform, serverVars, wire>>
    /\ last' = "playAccumulatedAudio_failed"
    /\ UNCHANGED <<turnVars, captureVars, playVars, modeVars, ws, commands,
                   inbound>>

\* the 100 ms timer set after playback fires: startRecording up to
\* getUserMedia
resumeRecording ==
  \E t \in InFlight :
    /\ Macrotask
    /\ t.pc = "rt_wait"
    /\ tasks' = Move(tasks, t, IF rec.isRecording THEN "rt_started"
                               ELSE "rt_gum")
    /\ UNCHANGED <<caller, platform, serverVars, wire>>
    /\ last' = "resumeRecording"
    /\ UNCHANGED <<state, turnVars, captureVars, playVars, modeVars, ws,
                   commands, inbound>>

\* the timer callback after `await this.audioService.startRecording()`
resumeRecording_started ==
  \E t \in InFlight :
    /\ t.pc = "rt_started"
    /\ state' = updateState(state, [isRecording |-> TRUE])
    /\ tasks' = Retire(tasks, t)
    /\ UNCHANGED <<caller, platform, serverVars, wire>>
    /\ last' = "resumeRecording_started"
    /\ UNCHANGED <<turnVars, captureVars, playVars, modeVars, ws, commands,
                   inbound>>

\* ---- TranslationService: handleRealtimeMessage --------------------------
\* case 'input_audio_buffer.speech_started'
speech_started ==
  /\ CanReceive
  /\ inbound' = inbound + 1
  /\ state' = updateState(state, [currentText |-> <<>>,
                                  translatedText |-> <<>>])
  /\ UNCHANGED <<caller, platform, serverVars, wire>>
  /\ last' = "speech_started"
  /\ UNCHANGED <<turnVars, captureVars, playVars, modeVars, ws, tasks,
                 commands>>

\* case 'input_audio_buffer.transcription.delta'
transcription_delta ==
  \E delta \in TextDeltas :
    /\ CanReceive
    /\ Len(state.currentText) < MaxTextLen
    /\ inbound' = inbound + 1
    /\ state' = updateState(state,
                  [currentText |-> Append(state.currentText, delta)])
    /\ UNCHANGED <<caller, platform, serverVars, wire>>
    /\ last' = "transcription_delta"
    /\ UNCHANGED <<turnVars, captureVars, playVars, modeVars, ws, tasks,
                   commands>>

\* case 'response.created'
response_created ==
  /\ CanReceive
  /\ inbound' = inbound + 1
  /\ state' = updateState(state, [isTranslating |-> TRUE])
  /\ audioChunks' = <<>>
  /\ isAccumulatingAudio' = TRUE
  /\ LET cleared == IF responseTimeout # NoTimer
                    THEN clearTimeout(armedTimeouts, responseTimeout)
                    ELSE armedTimeouts
         id == newTimeout(cleared, responseTimeout)
     IN /\ \E free \in TimerIds : free \notin cleared /\ free # responseTimeout
        /\ armedTimeouts' = cleared \cup {id}
        /\ responseTimeout' = id
  /\ UNCHANGED <<caller, platform, serverVars, wire>>
  /\ last' = IF isAccumulatingAudio /\ audioChunks # <<>>
             THEN "response_created_unfinalized" ELSE "response_created"
  /\ UNCHANGED <<captureVars, playVars, modeVars, ws, tasks, commands>>

\* a callback that drops the audio and leaves isTranslating set
timeoutStateTranslating(s) == updateState(s, [isPlaying |-> FALSE])

\* the state written by the finalize-timeout callback
timeoutState(s) ==
  updateState(s, [isTranslating |-> FALSE, isPlaying |-> FALSE])

\* the callback of the 10 s finalize-timeout
responseTimeout_fires ==
  \E id \in armedTimeouts :
    /\ Macrotask
    /\ armedTimeouts' = armedTimeouts \ {id}
    /\ state' = timeoutState(state)
    /\ isAccumulatingAudio' = FALSE
    /\ audioChunks' = <<>>
    /\ UNCHANGED <<caller, platform, serverVars, wire>>
    /\ last' = "responseTimeout_fires"
    /\ UNCHANGED <<responseTimeout, captureVars, playVars, modeVars,
                   ws, tasks, commands, inbound>>

\* accumulateAudioChunk: the decoded delta is pushed
accumulateAudioChunk(chunks, delta) ==
  Append(chunks, [samples |-> delta])

\* the event types that come in a GA and a beta spelling
TextDeltaTypes == {"response.output_text.delta", "response.text.delta"}
TranscriptDeltaTypes == {"response.output_audio_transcript.delta",
                         "response.audio_transcript.delta"}
AudioDeltaTypes == {"response.output_audio.delta", "response.audio.delta"}
ItemTypes == {"conversation.item.added", "conversation.item.created"}

\* a switch that knows the GA names only
caseOfGA(type) == type

\* the case label of handleRealtimeMessage's switch that a type reaches
caseOf(type) ==
  CASE type = "response.text.delta" -> "response.output_text.delta"
    [] type = "response.audio.delta" -> "response.output_audio.delta"
    [] type = "response.audio_transcript.delta" ->
         "response.output_audio_transcript.delta"
    [] type = "conversation.item.created" -> "conversation.item.added"
    [] OTHER -> type

\* the fields of TranslationService that the delta and item cases write
Assembler ==
  [state |-> state, audioChunks |-> audioChunks,
   isAccumulatingAudio |-> isAccumulatingAudio]

\* the first content part of a conversation item
ItemContents == [transcript : {"", "Hello"}, text : {"", "Hello"}]

\* case 'conversation.item.added': the transcript, then the text, replaces
\* currentText
itemText(current, content) ==
  LET afterTranscript == IF content.transcript # ""
                         THEN <<content.transcript>> ELSE current
  IN IF content.text # "" THEN <<content.text>> ELSE afterTranscript

\* handleRealtimeMessage for a delta or item event; a type without a case
\* reaches default, which finds no top-level transcript or text
handleRealtimeMessage(type, payload, a) ==
  CASE caseOf(type) \in {"response.output_text.delta",
                         "response.output_audio_transcript.delta"} ->
         [a EXCEPT !.state = updateState(a.state,
            [translatedText |-> Append(a.state.translatedText, payload)])]
    [] caseOf(type) = "response.output_audio.delta" ->
         IF a.isAccumulatingAudio
         THEN [a EXCEPT !.audioChunks =
                 accumulateAudioChunk(a.audioChunks, payload)]
         ELSE a
    [] caseOf(type) = "conversation.item.added" ->
         [a EXCEPT !.state = updateState(a.state,
            [currentText |-> itemText(a.state.currentText, payload)])]
    [] OTHER -> a

\* the assembler fields after a handler ran
Assembled(a) ==
  /\ state' = a.state
  /\ audioChunks' = a.audioChunks
  /\ isAccumulatingAudio' = a.isAccumulatingAudio

\* case 'response.output_text.delta' / 'response.text.delta', and the same
\* append of case 'response.output_audio_transcript.delta' /
\* 'response.audio_transcript.delta'
response_text_delta ==
  \E type \in TextDeltaTypes \cup TranscriptDeltaTypes, delta \in TextDeltas :
    /\ CanReceive
    /\ Len(state.translatedText) < MaxTextLen
    /\ inbound' = inbound + 1
    /\ Assembled(handleRealtimeMessage(type, delta, Assembler))
    /\ UNCHANGED <<caller, platform, serverVars, wire>>
    /\ last' = "response_text_delta"
    /\ UNCHANGED <<responseTimeout, armedTimeouts, captureVars, playVars,
                   modeVars, ws, tasks, commands>>

\* case 'response.output_audio.delta' / 'response.audio.delta'
response_audio_delta ==
  \E type \in AudioDeltaTypes, delta \in AudioDeltas :
    /\ CanReceive
    /\ Len(audioChunks) < MaxChunks
    /\ inbound' = inbound + 1
    /\ Assembled(handleRealtimeMessage(type, delta, Assembler))
    /\ UNCHANGED <<caller, platform, serverVars, wire>>
    /\ last' = "response_audio_delta"
    /\ UNCHANGED <<responseTimeout, armedTimeouts, captureVars, playVars,
                   modeVars, ws, tasks, commands>>

\* case 'conversation.item.added' / 'conversation.item.created'
conversation_item ==
  \E type \in ItemTypes, content \in ItemContents :
    /\ CanReceive
    /\ inbound' = inbound + 1
    /\ Assembled(handleRealtimeMessage(type, content, Assembler))
    /\ UNCHANGED <<caller, platform, serverVars, wire>>
    /\ last' = "conversation_item"
    /\ UNCHANGED <<responseTimeout, armedTimeouts, captureVars, playVars,
                   modeVars, ws, tasks, commands>>

\* a catch that reports the parse failure through onError
parseErrorReported(s) == handleErrorState(s, "parse")

\* the catch of ws.onmessage: the failure and the raw data are logged
parseError(s) == s

\* ws.onmessage with data that JSON.parse rejects
ws_onmessage_malformed ==
  /\ CanReceive
  /\ inbound' = inbound + 1
  /\ state' = parseError(state)
  /\ UNCHANGED <<caller, platform, serverVars, wire>>
  /\ last' = "ws_onmessage_malformed"
  /\ UNCHANGED <<turnVars, captureVars, playVars, modeVars, ws, tasks,
                 commands>>

\* a response.done that leaves isTranslating set
doneStatePlaying(s) == updateState(s, [isPlaying |-> FALSE])

\* the state written by case 'response.done'
doneState(s) == updateState(s, [isTranslating |-> FALSE, isPlaying |-> FALSE])

\* case 'response.done'; with accumulated audio it runs playAccumulatedAudio
\* up to its first suspension
response_done ==
  \E outcome \in PlayOutcomes :
    /\ CanReceive
    /\ inbound' = inbound + 1
    /\ armedTimeouts' = IF responseTimeout # NoTimer
                        THEN clearTimeout(armedTimeouts, responseTimeout)
                        ELSE armedTimeouts
    /\ responseTimeout' = NoTimer
    /\ isAccumulatingAudio' = FALSE
    /\ UNCHANGED <<caller, platform, serverVars, wire>>
    /\ last' = "response_done"
    /\ LET s1 == doneState(state)
           t == Task("playAccumulatedAudio", "pa", s1.isRecording,
                     audioChunks)
       IN IF Len(audioChunks) = 0
          THEN /\ outcome = "run"
               /\ state' = s1
               /\ UNCHANGED <<captureVars, playVars, tasks>>
          ELSE /\ CanSpawn
               /\ IF s1.isRecording
                  THEN /\ outcome = "run"
                       /\ state' = s1
                       /\ rec' = stopRecordingBegin(rec)
                       /\ hw' = stopRecordingBeginHw(rec, hw)
                       /\ tasks' = Spawn(tasks, [t EXCEPT !.pc =
                                      IF stopRecordingCloses(rec)
                                      THEN "pa_close" ELSE "pa_stopped"])
                       /\ UNCHANGED playVars
                  ELSE /\ state' = updateState(s1, [isPlaying |-> TRUE])
                       /\ playAudioBuffer(tasks, t, outcome)
                       /\ UNCHANGED <<captureVars, ended>>
    /\ UNCHANGED <<audioChunks, modeVars, ws, commands>>

\* an error event is identified by which of the two phrases its message
\* contains
ErrorEvents == [tooSmall : BOOLEAN, atLeast100ms : BOOLEAN]

\* a check for 'buffer too small' only
bufferTooSmallOnly(message) == message.tooSmall

\* errorMessage.includes('buffer too small') ||
\* errorMessage.includes('Expected at least 100ms')
bufferTooSmall(message) == message.tooSmall \/ message.atLeast100ms

\* case 'error'
error_message ==
  \E message \in ErrorEvents :
    /\ CanReceive
    /\ inbound' = inbound + 1
    /\ IF bufferTooSmall(message)
       THEN UNCHANGED <<state, turnVars>>
       ELSE /\ handleError
            /\ state' = handleErrorState(state, "api")
    /\ UNCHANGED <<caller, platform, serverVars, wire>>
    /\ last' = IF message.tooSmall \/ message.atLeast100ms
               THEN "error_benign" ELSE "error_message"
    /\ UNCHANGED <<captureVars, playVars, modeVars, ws, tasks, commands>>

\* ---- teardown failure ----------------------------------------------------
\* audioContext.close() rejected: stopRecording throws into its caller's
\* catch (stopTranslation, playAccumulatedAudio, stop)
stopRecording_closeFails ==
  \E t \in InFlight :
    /\ Macrotask
    /\ t.pc \in DOMAIN AfterClose
    /\ tasks' = Retire(tasks, t)
    /\ CASE t.pc = "sp_close" ->
              /\ handleError
              /\ state' = updateState(handleErrorState(state, "close"),
                            [isRecording |-> FALSE, isTranslating |-> FALSE,
                             isPlaying |-> FALSE])
         [] t.pc = "pa_close" ->
              /\ state' = updateState(state, [isPlaying |-> FALSE])
              /\ UNCHANGED turnVars
         [] t.pc = "sh_close" ->
              /\ handleError
              /\ state' = handleErrorState(state, "close")
    /\ UNCHANGED <<caller, platform, serverVars, wire>>
    /\ last' = IF t.pc = "pa_close" THEN "playAccumulatedAudio_closeFails"
               ELSE "stopRecording_closeFails"
    /\ UNCHANGED <<captureVars, playVars, modeVars, ws, commands, inbound>>

\* ---- TranslationService: speakTranslation --------------------------------
\* speakTranslation up to `await setMode(AudioMode.Playback)`; without an
\* argument it speaks state.translatedText
speakTranslation ==
  \E text \in {"", "text"} :
    /\ CanCommand
    /\ commands' = commands + 1
    /\ UNCHANGED <<caller, platform, serverVars, wire>>
    /\ last' = "speakTranslation"
    /\ IF text = "" /\ state.translatedText = <<>>
       THEN UNCHANGED <<asm, requested, tasks>>
       ELSE /\ asm' = setMode(asm, "playback")
            /\ requested' = "playback"
            /\ tasks' = Spawn(tasks, Task("speakTranslation",
                                setModePc(asm, "sk_init", "sk_mode"),
                                FALSE, <<>>))
    /\ UNCHANGED <<state, turnVars, captureVars, playVars, ws, inbound>>

\* speakNepali from `this.isPlaying = true`: Speech.speak starts the
\* utterance, or it throws into speakNepali's catch
speakNepali(p, t, spoken) ==
  IF spoken
  THEN /\ tts' = [p EXCEPT !.isPlaying = TRUE]
       /\ speech' = TRUE
       /\ tasks' = Move(tasks, t, "sk_spoken")
  ELSE /\ tts' = [p EXCEPT !.isPlaying = FALSE]
       /\ speech' = FALSE
       /\ tasks' = Move(tasks, t, "sk_failed")

\* speakTranslation after setMode: speakNepali up to its first suspension
speakTranslation_mode ==
  \E t \in InFlight, spoken \in BOOLEAN :
    /\ t.pc = "sk_mode"
    /\ state' = updateState(state, [isPlaying |-> TRUE])
    /\ IF tts.isPlaying
       THEN /\ spoken
            /\ speech' = FALSE
            /\ tasks' = Move(tasks, t, "sk_ttsstop")
            /\ UNCHANGED tts
       ELSE speakNepali(tts, t, spoken)
    /\ UNCHANGED <<caller, platform, serverVars, wire>>
    /\ last' = "speakTranslation_mode"
    /\ UNCHANGED <<turnVars, captureVars, clips, ended, modeVars, ws,
                   commands, inbound>>

\* speakNepali after `await this.stop()`
speakNepali_stopped ==
  \E t \in InFlight, spoken \in BOOLEAN :
    /\ t.pc = "sk_ttsstop"
    /\ ended' = IF tts.currentSound THEN ended + 1 ELSE ended
    /\ clips' = IF tts.currentSound THEN clips - 1 ELSE clips
    /\ speakNepali(ttsStopped(tts), t, spoken)
    /\ UNCHANGED <<caller, platform, serverVars, wire>>
    /\ last' = "speakNepali_stopped"
    /\ UNCHANGED <<state, turnVars, captureVars, modeVars, ws, commands,
                   inbound>>

\* speakTranslation's catch after speakNepali rejected
speakTranslation_failed ==
  \E t \in InFlight :
    /\ t.pc = "sk_failed"
    /\ handleError
    /\ state' = updateState(handleErrorState(state, "speech"),
                            [isPlaying |-> FALSE])
    /\ tasks' = Retire(tasks, t)
    /\ UNCHANGED <<caller, platform, serverVars, wire>>
    /\ last' = "speakTranslation_failed"
    /\ UNCHANGED <<captureVars, playVars, modeVars, ws, commands, inbound>>

\* speakTranslation after `await speakNepali(...)`: back to idle mode
speakTranslation_spoken ==
  \E t \in InFlight :
    /\ t.pc = "sk_spoken"
    /\ state' = updateState(state, [isPlaying |-> FALSE])
    /\ asm' = setMode(asm, "idle")
    /\ requested' = "idle"
    /\ tasks' = IF asm.isInitialized THEN Retire(tasks, t)
                ELSE Move(tasks, t, "sk_init2")
    /\ UNCHANGED <<caller, platform, serverVars, wire>>
    /\ last' = "speakTranslation_spoken"
    /\ UNCHANGED <<turnVars, captureVars, playVars, ws, commands, inbound>>

\* ---- TranslationService: stop (shutdown) ---------------------------------
\* stop up to the suspension of `await this.audioService.cleanup()`
stop ==
  /\ CanCommand
  /\ commands' = commands + 1
  /\ UNCHANGED <<caller, platform, serverVars, wire>>
  /\ last' = "stop"
  /\ rec' = stopRecordingBegin(rec)
  /\ hw' = stopRecordingBeginHw(rec, hw)
  /\ tasks' = Spawn(tasks, Task("stop",
                      IF stopRecordingCloses(rec) THEN "sh_close"
                      ELSE "sh_cleaned", FALSE, <<>>))
  /\ UNCHANGED <<state, turnVars, playVars, modeVars, ws, inbound>>

\* stop after cleanup: ttsService.stop() up to `await Speech.stop()`
stop_cleaned ==
  \E t \in InFlight :
    /\ t.pc = "sh_cleaned"
    /\ speech' = FALSE
    /\ tasks' = Move(tasks, t, "sh_tts")
    /\ UNCHANGED <<caller, platform, serverVars, wire>>
    /\ last' = "stop_cleaned"
    /\ UNCHANGED <<state, turnVars, captureVars, tts, clips, ended, modeVars,
                   ws, commands, inbound>>

\* a disconnect that keeps the socket it closed
disconnectKeeps(w) == w

\* OpenAIRealtimeService.disconnect: `this.ws = null` on a held socket
disconnect(w) == IF w # "null" THEN "null" ELSE w

\* OpenAIRealtimeService.disconnect: `this.ws.close()` on a held socket
disconnectClose(w, log) ==
  IF w # "null" THEN [log EXCEPT !.closes = log.closes + 1] ELSE log

\* stop after ttsService.stop(): disconnect, then
\* audioSessionManager.cleanup() up to its setMode(AudioMode.Idle)
stop_tts ==
  \E t \in InFlight :
    /\ t.pc = "sh_tts"
    /\ ended' = IF tts.currentSound THEN ended + 1 ELSE ended
    /\ clips' = IF tts.currentSound THEN clips - 1 ELSE clips
    /\ tts' = ttsStopped(tts)
    /\ ws' = disconnect(ws)
    /\ wire' = disconnectClose(ws, wire)
    /\ asm' = setMode(asm, "idle")
    /\ requested' = "idle"
    /\ tasks' = Move(tasks, t, setModePc(asm, "sh_init", "sh_mode"))
    /\ UNCHANGED <<caller, platform, serverVars>>
    /\ last' = "stop_tts"
    /\ UNCHANGED <<state, turnVars, captureVars, speech, commands, inbound>>

\* stop after setMode: cleanup resets isInitialized, then the final state
stop_mode ==
  \E t \in InFlight :
    /\ t.pc = "sh_mode"
    /\ asm' = [asm EXCEPT !.isInitialized = FALSE]
    /\ state' = updateState(state, [isRecording |-> FALSE,
                                    isTranslating |-> FALSE,
                                    isPlaying |-> FALSE, error |-> "null"])
    /\ tasks' = Retire(tasks, t)
    /\ UNCHANGED <<caller, platform, serverVars, wire>>
    /\ last' = "stop_mode"
    /\ UNCHANGED <<turnVars, captureVars, playVars, ws, requested, commands,
                   inbound>>

\* ---- TranslationService: initialize --------------------------------------
\* initialize up to `await this.audioSessionManager.initialize()`
initialize ==
  /\ IF caller = "ui" THEN last = "constructor" ELSE CanCommand
  /\ commands' = commands + 1
  /\ UNCHANGED <<caller, platform, serverVars, wire>>
  /\ last' = "initialize"
  /\ asm' = [asm EXCEPT !.isInitialized = TRUE]
  /\ tasks' = Spawn(tasks, Task("initialize", "in_start", FALSE, <<>>))
  /\ UNCHANGED <<state, turnVars, captureVars, playVars, ws, requested,
                 inbound>>

\* optimizeForAirPods: setMode(AudioMode.Duplex)
initialize_started ==
  \E t \in InFlight :
    /\ t.pc = "in_start"
    /\ asm' = setMode(asm, "duplex")
    /\ requested' = "duplex"
    /\ tasks' = Move(tasks, t, setModePc(asm, "in_init", "in_mode"))
    /\ UNCHANGED <<caller, platform, serverVars, wire>>
    /\ last' = "initialize_started"
    /\ UNCHANGED <<state, turnVars, captureVars, playVars, ws, commands,
                   inbound>>

\* enableEchoCancellation, then requestPermissions up to its platform calls
initialize_mode ==
  \E t \in InFlight :
    /\ t.pc = "in_mode"
    /\ tasks' = Move(tasks, t, "in_perm")
    /\ UNCHANGED <<caller, platform, serverVars, wire>>
    /\ last' = "initialize_mode"
    /\ UNCHANGED <<state, turnVars, captureVars, playVars, modeVars, ws,
                   commands, inbound>>

\* requestPermissions resolved; with the microphone, connect() up to
\* `await this.backendAPI.getRealtimeToken()`
initialize_permissions ==
  \E t \in InFlight, microphone \in BOOLEAN :
    /\ Macrotask
    /\ t.pc = "in_perm"
    /\ IF microphone
       THEN /\ tasks' = Move(tasks, t, "in_token")
            /\ UNCHANGED <<state, turnVars>>
       ELSE /\ tasks' = Retire(tasks, t)
            /\ handleError
            /\ state' = handleErrorState(state, "permission")
    /\ UNCHANGED <<caller, platform, serverVars, wire>>
    /\ last' = IF microphone THEN "initialize_permissions"
               ELSE "initialize_denied"
    /\ UNCHANGED <<captureVars, playVars, modeVars, ws, commands, inbound>>

\* connect after the token request: the socket is created, or the failure
\* goes to onError
connect_token ==
  \E t \in InFlight, ok \in BOOLEAN :
    /\ Macrotask
    /\ t.pc = "in_token"
    /\ IF ok
       THEN /\ ws' = "CONNECTING"
            /\ wire' = NoSocket
            /\ UNCHANGED <<state, turnVars>>
       ELSE /\ handleError
            /\ state' = handleErrorState(state, "token")
            /\ UNCHANGED <<ws, wire>>
    /\ tasks' = IF t.m = "connect" THEN Retire(tasks, t)
                ELSE Move(tasks, t, "in_connected")
    /\ UNCHANGED <<caller, platform, serverVars>>
    /\ last' = IF ok THEN "connect_token" ELSE "connect_failed"
    /\ UNCHANGED <<captureVars, playVars, modeVars, commands, inbound>>

\* initialize after `await this.openaiService.connect()`
initialize_connected ==
  \E t \in InFlight :
    /\ t.pc = "in_connected"
    /\ state' = updateState(state, [error |-> "null"])
    /\ tasks' = Retire(tasks, t)
    /\ UNCHANGED <<caller, platform, serverVars, wire>>
    /\ last' = "initialize_connected"
    /\ UNCHANGED <<turnVars, captureVars, playVars, modeVars, ws, commands,
                   inbound>>

\* ---- OpenAIRealtimeService: socket callbacks -----------------------------
\* the two revisions of OpenAIRealtimeService in the repository
Revisions == {"first", "second"}

\* initializeSession on an open socket: the first revision sends the
\* session.update, the second returns before its send
initializeSession(w, revision) ==
  IF revision = "first"
  THEN [w EXCEPT !.sent = Append(w.sent, Message("session.update"))]
  ELSE w

\* ws.onopen
ws_onopen ==
  \E revision \in Revisions :
  /\ Macrotask
  /\ ws = "CONNECTING"
  /\ ws' = "OPEN"
  /\ wire' = initializeSession(wire, revision)
  /\ UNCHANGED <<caller, platform, serverVars>>
  /\ last' = "ws_onopen"
  /\ UNCHANGED <<state, turnVars, captureVars, playVars, modeVars, tasks,
                 commands, inbound>>

\* ws.onerror
ws_onerror ==
  /\ Macrotask
  /\ ws \in {"CONNECTING", "OPEN"}
  /\ handleError
  /\ state' = handleErrorState(state, "WebSocket")
  /\ UNCHANGED <<caller, platform, serverVars, wire>>
  /\ last' = "ws_onerror"
  /\ UNCHANGED <<captureVars, playVars, modeVars, ws, tasks, commands,
                 inbound>>

\* ws.onclose: the close code is logged
ws_onclose ==
  /\ Macrotask
  /\ ws \in {"CONNECTING", "OPEN"}
  /\ ws' = "CLOSED"
  /\ UNCHANGED <<caller, platform, serverVars, wire>>
  /\ last' = "ws_onclose"
  /\ UNCHANGED <<state, turnVars, captureVars, playVars, modeVars, tasks,
                 commands, inbound>>

\* ---- OpenAIRealtimeService: transport encoding ---------------------------
Min(a, b) == IF a < b THEN a ELSE b

PcmChunks == UNION {[1..n -> Bytes] : n \in 0..MaxPcm}

\* a subarray that leaves out the last byte of its range
subarrayShort(bytes, begin, end) ==
  SubSeq(bytes, begin + 1, Min(end - 1, Len(bytes)))

\* Uint8Array.subarray(begin, end): end is exclusive and clamped
subarray(bytes, begin, end) == SubSeq(bytes, begin + 1, Min(end, Len(bytes)))

\* the loop of sendAudioData from offset i: one String.fromCharCode.apply
\* per sub-chunk, each byte becoming the code unit of its value
RECURSIVE binaryFrom(_, _)
binaryFrom(bytes, i) ==
  IF i >= Len(bytes) THEN <<>>
  ELSE subarray(bytes, i, i + chunkSize) \o binaryFrom(bytes, i + chunkSize)

\* the base64 alphabet as the values 0..63, and the padding character '='
Pad == 64

\* btoa: three code units become four characters; one or two left over are
\* padded
RECURSIVE btoa(_)
btoa(binary) ==
  CASE Len(binary) = 0 -> <<>>
    [] Len(binary) = 1 ->
         <<binary[1] \div 4, (binary[1] % 4) * 16, Pad, Pad>>
    [] Len(binary) = 2 ->
         <<binary[1] \div 4,
           (binary[1] % 4) * 16 + binary[2] \div 16,
           (binary[2] % 16) * 4, Pad>>
    [] OTHER ->
         <<binary[1] \div 4,
           (binary[1] % 4) * 16 + binary[2] \div 16,
           (binary[2] % 16) * 4 + binary[3] \div 64,
           binary[3] % 64>> \o btoa(SubSeq(binary, 4, Len(binary)))

\* atob: four characters become three code units, fewer before padding
RECURSIVE atob(_)
atob(text) ==
  IF Len(text) < 4 THEN <<>>
  ELSE LET a == text[1]
           b == text[2]
           c == text[3]
           d == text[4]
           first == a * 4 + b \div 16
           second == (b % 16) * 16 + c \div 4
           third == (c % 4) * 64 + d
       IN (CASE c = Pad -> <<first>>
             [] d = Pad -> <<first, second>>
             [] OTHER -> <<first, second, third>>)
          \o atob(SubSeq(text, 5, Len(text)))

\* accumulateAudioChunk's decoding: bytes[i] = binaryString.charCodeAt(i)
decodedBytes(audioBase64) ==
  LET binaryString == atob(audioBase64)
  IN [i \in 1..Len(binaryString) |-> binaryString[i] % 256]

\* ---- OpenAIRealtimeService: outbound commands ----------------------------
\* a guard that only tests for a missing socket
notConnectedNull(w) == w = "null"

\* `!this.ws || this.ws.readyState !== WebSocket.OPEN`
notConnected(w) == w # "OPEN"

\* this.ws.send(JSON.stringify(message))
send(log, message) == [log EXCEPT !.sent = Append(log.sent, message)]

\* a gateway method is invoked
GatewayCall(name) ==
  /\ caller = "gateway"
  /\ CanCommand
  /\ commands' = commands + 1
  /\ last' = name
  /\ UNCHANGED <<state, turnVars, captureVars, playVars, modeVars, caller,
                 platform, serverVars, inbound>>

sendAudioData ==
  \E audioData \in PcmChunks :
    /\ GatewayCall("sendAudioData")
    /\ IF notConnected(ws)
       THEN UNCHANGED wire
       ELSE /\ Len(wire.sent) < MaxSent
            /\ wire' = send(wire, AudioMessage("input_audio_buffer.append",
                                   btoa(binaryFrom(audioData, 0)), audioData))
    /\ UNCHANGED <<ws, tasks>>

commitAudioBuffer ==
  /\ GatewayCall("commitAudioBuffer")
  /\ IF notConnected(ws)
     THEN UNCHANGED wire
     ELSE /\ Len(wire.sent) < MaxSent
          /\ wire' = send(wire, Message("input_audio_buffer.commit"))
  /\ UNCHANGED <<ws, tasks>>

clearAudioBuffer ==
  /\ GatewayCall("clearAudioBuffer")
  /\ IF notConnected(ws)
     THEN UNCHANGED wire
     ELSE /\ Len(wire.sent) < MaxSent
          /\ wire' = send(wire, Message("input_audio_buffer.clear"))
  /\ UNCHANGED <<ws, tasks>>

\* requestTranslation sends the item and then the response.create
requestTranslation ==
  /\ GatewayCall("requestTranslation")
  /\ IF notConnected(ws)
     THEN UNCHANGED wire
     ELSE /\ Len(wire.sent) + 1 < MaxSent
          /\ wire' = send(send(wire, Message("conversation.item.create")),
                          Message("response.create"))
  /\ UNCHANGED <<ws, tasks>>

\* ---- capture callback ---------------------------------------------------
\* the samples of one capture buffer, out of range ones included
Float32Samples == {0 - 2, 0, 1}
ChannelData == {<<s>> : s \in Float32Samples}

\* view.setInt16(offset, value, true): two bytes, low byte first
setInt16(value) ==
  LET u == value % 65536
  IN <<u % 256, u \div 256>>

\* WebAudioRecordingService.float32ToPCM16
RECURSIVE float32ToPCM16(_)
float32ToPCM16(float32Array) ==
  IF float32Array = <<>> THEN <<>>
  ELSE LET x == Head(float32Array)
           lo == IF x > 1 THEN 1 ELSE x
           sample == IF lo < 0 - 1 THEN 0 - 1 ELSE lo
       IN setInt16(IF sample < 0 THEN sample * 32768 ELSE sample * 32767)
          \o float32ToPCM16(Tail(float32Array))

\* a handleAudioData that forwards whatever it is given
forwardsAlways(s) == TRUE

\* handleAudioData's guard: `if (this.state.isRecording)`
forwards(s) == s.isRecording

\* processor.onaudioprocess on a connected processor: while the service
\* records, the buffer is converted and given to handleAudioData, which
\* calls sendAudioData when the orchestrator's isRecording is set
onaudioprocess ==
  \E channelData \in ChannelData :
    /\ Macrotask
    /\ rec.processor
    /\ LET audioData == float32ToPCM16(channelData)
           delivered == rec.isRecording
           forwarded == delivered /\ forwards(state)
           sent == forwarded /\ ~notConnected(ws)
       IN /\ sent => Len(wire.sent) < MaxSent
          /\ wire' = IF sent
                      THEN send(wire, AudioMessage("input_audio_buffer.append",
                                        btoa(binaryFrom(audioData, 0)),
                                        audioData))
                      ELSE wire
          /\ last' = CASE ~delivered -> "onaudioprocess_idle"
                        [] ~forwarded -> "handleAudioData_dropped"
                        [] ~sent -> "handleAudioData_notConnected"
                        [] OTHER -> "handleAudioData_sent"
    /\ UNCHANGED <<state, turnVars, captureVars, playVars, modeVars, ws,
                   tasks, caller, platform, serverVars, commands, inbound>>

\* connect up to `await this.backendAPI.getRealtimeToken()`
connect ==
  /\ GatewayCall("connect")
  /\ tasks' = Spawn(tasks, Task("connect", "in_token", FALSE, <<>>))
  /\ UNCHANGED <<ws, wire>>

\* disconnect invoked on the gateway
disconnect_call ==
  /\ GatewayCall(IF ws = "null" THEN "disconnect_none" ELSE "disconnect")
  /\ ws' = disconnect(ws)
  /\ wire' = disconnectClose(ws, wire)
  /\ UNCHANGED tasks

\* ---- AudioSessionManager on its own: the calls between its methods ------
\* a call of a method of the manager: where it stands, and whether the
\* manager was initialized when it was made
Frame(fn, mode, pc, was) == [fn |-> fn, mode |-> mode, pc |-> pc, was |-> was]

ManagerCalls == {"initialize", "setMode", "cleanup"}

\* the manager's call stack, innermost call last
ManagerTask == CHOOSE t \in InFlight : t.m = "AudioSessionManager"
ManagerRunning == \E t \in InFlight : t.m = "AudioSessionManager"

\* the innermost call returns to the call below it
Return(stack) == SubSeq(stack, 1, Len(stack) - 1)

\* the innermost call calls fn and waits for it at pc "after"
Call(stack, fn, mode) ==
  Append([stack EXCEPT ![Len(stack)].pc = "after"],
         Frame(fn, mode, "entry", asm.isInitialized))

\* what the step of the innermost call does: "return", or the call it makes
\* initialize: returns when initialized or on web, else calls setMode(Idle)
\* setMode: calls initialize while not initialized
\* cleanup: calls setMode(Idle)
NextCall(f) ==
  CASE f.fn = "initialize" /\ f.pc = "entry" ->
         IF asm.isInitialized \/ platform = "web" THEN "return"
         ELSE "setMode"
    [] f.fn = "setMode" /\ f.pc = "entry" ->
         IF ~asm.isInitialized THEN "initialize" ELSE "return"
    [] f.fn = "cleanup" /\ f.pc = "entry" -> "setMode"
    [] OTHER -> "return"

\* the fields of the manager when the innermost call returns
Returning(f, a) ==
  CASE f.fn = "initialize" ->
         IF f.pc = "entry" /\ a.isInitialized THEN a
         ELSE [a EXCEPT !.isInitialized = TRUE]
    [] f.fn = "setMode" -> setModeApply(a, f.mode)
    [] f.fn = "cleanup" -> [a EXCEPT !.isInitialized = FALSE]

\* the label of the step that ends the outermost call
Ended(f, how) ==
  IF f.fn = "initialize" /\ ~f.was
  THEN (IF how = "returned" THEN "manager_initialize_returned"
        ELSE "manager_initialize_rejected")
  ELSE (IF how = "returned" THEN "manager_returned" ELSE "manager_rejected")

ManagerFrame ==
  /\ UNCHANGED <<state, turnVars, captureVars, playVars, ws, wire, caller,
                 platform, serverVars, inbound>>

\* a method of the manager is called from outside, no call being in flight
manager_call ==
  \E fn \in ManagerCalls, mode \in AudioMode :
    /\ caller = "manager"
    /\ CanCommand
    /\ ~ManagerRunning
    /\ fn # "setMode" => mode = "idle"
    /\ commands' = commands + 1
    /\ requested' = IF fn = "initialize" THEN requested ELSE mode
    /\ tasks' = Spawn(tasks, Task("AudioSessionManager", "run", FALSE,
                        <<Frame(fn, mode, "entry", asm.isInitialized)>>))
    /\ last' = "manager_call"
    /\ UNCHANGED asm
    /\ ManagerFrame

\* the innermost call runs: it returns, or it calls another method; a call
\* that the stack cannot hold throws RangeError
manager_step ==
  /\ ManagerRunning
  /\ ManagerTask.pc = "run"
  /\ LET t == ManagerTask
         stack == t.payload
         f == stack[Len(stack)]
         next == NextCall(f)
     IN CASE next = "return" /\ Len(stack) = 1 ->
               /\ asm' = Returning(f, asm)
               /\ tasks' = Retire(tasks, t)
               /\ last' = Ended(f, "returned")
          [] next = "return" /\ Len(stack) > 1 ->
               /\ asm' = Returning(f, asm)
               /\ tasks' = Spawn(Retire(tasks, t),
                                 [t EXCEPT !.payload = Return(stack)])
               /\ last' = "manager_step"
          [] next # "return" /\ Len(stack) < MaxStack ->
               /\ tasks' = Spawn(Retire(tasks, t),
                             [t EXCEPT !.payload = Call(stack, next, "idle")])
               /\ last' = "manager_step"
               /\ UNCHANGED asm
          [] OTHER ->
               /\ tasks' = Spawn(Retire(tasks, t), [t EXCEPT !.pc = "throw"])
               /\ last' = "manager_overflow"
               /\ UNCHANGED asm
  /\ UNCHANGED <<requested, commands>>
  /\ ManagerFrame

\* the rejection reaches the call below: initialize rethrows from its catch,
\* setMode lets it pass, cleanup logs it and returns
manager_unwind ==
  /\ ManagerRunning
  /\ ManagerTask.pc = "throw"
  /\ LET t == ManagerTask
         stack == t.payload
         f == stack[Len(stack)]
         how == IF f.fn = "cleanup" THEN "returned" ELSE "rejected"
     IN IF Len(stack) = 1
        THEN /\ tasks' = Retire(tasks, t)
             /\ last' = Ended(f, how)
        ELSE /\ tasks' = Spawn(Retire(tasks, t),
                           [t EXCEPT !.payload = Return(stack),
                                     !.pc = IF f.fn = "cleanup" THEN "run"
                                            ELSE "throw"])
             /\ last' = "manager_unwind"
  /\ UNCHANGED <<asm, requested, commands>>
  /\ ManagerFrame

Next ==
  \/ setMode_initialized
  \/ stopRecording_closed
  \/ startRecording_granted
  \/ startRecording_contextFails
  \/ startRecording_denied
  \/ startTranslation
  \/ startTranslation_mode
  \/ stopTranslation
  \/ stopTranslation_after
  \/ playAudioBuffer_stopped
  \/ playPCMAudio_prepared
  \/ source_ended
  \/ source_stopped_ended
  \/ speech_ended
  \/ playAccumulatedAudio_stopped
  \/ playAccumulatedAudio_played
  \/ playAccumulatedAudio_failed
  \/ resumeRecording
  \/ resumeRecording_started
  \/ speech_started
  \/ transcription_delta
  \/ response_created
  \/ responseTimeout_fires
  \/ response_text_delta
  \/ response_audio_delta
  \/ response_done
  \/ error_message
  \/ stopRecording_closeFails
  \/ speakTranslation
  \/ speakTranslation_mode
  \/ speakNepali_stopped
  \/ speakTranslation_spoken
  \/ speakTranslation_failed
  \/ stop
  \/ stop_cleaned
  \/ stop_tts
  \/ stop_mode
  \/ initialize
  \/ initialize_started
  \/ initialize_mode
  \/ initialize_permissions
  \/ connect_token
  \/ initialize_connected
  \/ ws_onopen
  \/ ws_onerror
  \/ ws_onclose

Spec == Init /\ [][Next]_vars

ApiSpec == ApiInit /\ [][Next]_vars

\* a session that is connected and recording: initialize, socket open,
\* startTranslation, microphone granted
Streaming ==
  /\ state = [isRecording |-> TRUE, isTranslating |-> FALSE,
              isPlaying |-> FALSE, currentText |-> <<>>,
              translatedText |-> <<>>, error |-> "null"]
  /\ audioChunks = <<>>
  /\ isAccumulatingAudio = FALSE
  /\ responseTimeout = NoTimer
  /\ armedTimeouts = {}
  /\ rec = [isRecording |-> TRUE, stream |-> TRUE, audioContext |-> TRUE,
            analyser |-> TRUE, processor |-> TRUE]
  /\ hw = [mic |-> 1, ctx |-> 1]
  /\ tts = [isPlaying |-> FALSE, currentSound |-> FALSE]
  /\ clips = 0
  /\ ended = 0
  /\ speech = FALSE
  /\ asm = [currentMode |-> "recording", isInitialized |-> TRUE]
  /\ ws = "OPEN"
  /\ wire = [sent |-> <<Message("session.update")>>, closes |-> 0]
  /\ tasks = EmptyBag
  /\ requested = "recording"
  /\ commands = 2
  /\ inbound = 0
  /\ last = "startRecording_granted"
  /\ requests = NoRequests
  /\ now = 0
  /\ responses = <<>>

StreamInit == Streaming /\ caller = "server" /\ platform = "web"

\* what happens to a session nobody touches: server events, timers, audio
\* hardware callbacks and the continuations they resume
StreamNext ==
  \/ speech_started
  \/ transcription_delta
  \/ response_created
  \/ responseTimeout_fires
  \/ response_text_delta
  \/ response_audio_delta
  \/ conversation_item
  \/ ws_onmessage_malformed
  \/ response_done
  \/ error_message
  \/ stopRecording_closed
  \/ stopRecording_closeFails
  \/ playAudioBuffer_stopped
  \/ playPCMAudio_prepared
  \/ source_ended
  \/ source_stopped_ended
  \/ playAccumulatedAudio_stopped
  \/ playAccumulatedAudio_played
  \/ playAccumulatedAudio_failed
  \/ resumeRecording
  \/ resumeRecording_started
  \/ startRecording_granted
  \/ startRecording_contextFails
  \/ startRecording_denied
  \/ ws_onerror
  \/ ws_onclose
  \/ onaudioprocess

StreamSpec == StreamInit /\ [][StreamNext]_vars

\* the gateway as constructed, its methods invoked directly
GatewayInit == Constructed /\ caller = "gateway" /\ platform = "web"

GatewayNext ==
  \/ connect
  \/ connect_token
  \/ ws_onopen
  \/ ws_onerror
  \/ ws_onclose
  \/ sendAudioData
  \/ commitAudioBuffer
  \/ clearAudioBuffer
  \/ requestTranslation
  \/ disconnect_call

GatewaySpec == GatewayInit /\ [][GatewayNext]_vars

\* the manager as constructed, on the web or on a native platform
ManagerInit ==
  Constructed /\ caller = "manager" /\ platform \in {"web", "native"}

ManagerNext ==
  \/ manager_call
  \/ manager_step
  \/ manager_unwind

ManagerSpec == ManagerInit /\ [][ManagerNext]_vars

\* ---- backend: createRateLimiter ------------------------------------------
\* a limit that is tested after the request that exceeds it
exceededAfter(clientData) == clientData.count > maxRequests

\* `clientData.count >= maxRequests`
exceeded(clientData) == clientData.count >= maxRequests

\* "Clean up expired entries": requests.delete(key) where now > resetTime
cleanUp(map) ==
  [key \in DOMAIN map |->
     IF map[key] # NoEntry /\ now > map[key].resetTime THEN NoEntry
     ELSE map[key]]

\* the middleware app.use('/api', rateLimiter) runs on one request; it is
\* registered before authenticateRequest, so req.sessionId is still unset
\* whatever header the request carries
rateLimiter ==
  \E ip \in Ips, header \in SessionIds :
    /\ caller = "client"
    /\ Len(responses) < MaxRequests
    /\ LET sessionId == ""
           key == identifier(ip, sessionId)
           cleaned == cleanUp(requests)
           clientData == cleaned[key]
           outcome ==
             CASE clientData = NoEntry -> "first"
               [] now > clientData.resetTime -> "reset"
               [] exceeded(clientData) -> "limited"
               [] OTHER -> "passed"
       IN /\ requests' =
               CASE outcome \in {"first", "reset"} ->
                      [cleaned EXCEPT ![key] = [count |-> 1,
                                               resetTime |-> now + windowMs]]
                 [] outcome = "limited" -> cleaned
                 [] OTHER ->
                      [cleaned EXCEPT ![key].count = clientData.count + 1]
          /\ responses' = Append(responses,
                            [ip |-> ip, at |-> now,
                             status |-> IF outcome = "limited" THEN 429
                                        ELSE 0])
          /\ last' = "rateLimiter_" \o outcome
    /\ UNCHANGED <<state, turnVars, captureVars, playVars, modeVars, ws,
                   tasks, wire, caller, platform, now, commands, inbound>>

\* time passes on the backend
tick ==
  /\ caller = "client"
  /\ now < MaxNow
  /\ now' = now + 1
  /\ last' = "tick"
  /\ UNCHANGED <<state, turnVars, captureVars, playVars, modeVars, ws,
                 tasks, wire, caller, platform, requests, responses, commands,
                 inbound>>

\* the backend alone, requests arriving from its clients
LimiterInit == Constructed /\ caller = "client" /\ platform = "web"

LimiterNext ==
  \/ rateLimiter
  \/ tick

LimiterSpec == LimiterInit /\ [][LimiterNext]_vars

\* microtasks always run: the continuations resumed by a settled promise
Microtasks ==
  \/ setMode_initialized
  \/ startTranslation_mode
  \/ stopTranslation_after
  \/ playAudioBuffer_stopped
  \/ playAccumulatedAudio_stopped
  \/ playAccumulatedAudio_played
  \/ playAccumulatedAudio_failed
  \/ resumeRecording_started
  \/ speakTranslation_mode
  \/ speakNepali_stopped
  \/ speakTranslation_spoken
  \/ speakTranslation_failed
  \/ stop_cleaned
  \/ stop_tts
  \/ stop_mode
  \/ initialize_started
  \/ initialize_mode
  \/ initialize_connected

\* the event loop runs every microtask and every timer that is due
LiveSpec ==
  Spec /\ WF_vars(Microtasks) /\ WF_vars(responseTimeout_fires)

\* ---- properties ----------------------------------------------------------
Capturing == rec.isRecording
Sounding == clips > 0 \/ speech
Idle == ~state.isRecording /\ ~state.isTranslating /\ ~state.isPlaying
Handed == Cardinality({t \in InFlight : t.m = "playAccumulatedAudio"})
SetModeInFlight == \E t \in InFlight : t.pc \in DOMAIN SetModeCalls

\* C1: the capture pipeline is never recording while the playback
\* controller is playing turn audio or speech.
C1_HalfDuplex == ~(Capturing /\ Sounding)

\* C2: after a turn's playback, capture is restarted by the guard timer only
\* once the clip has played to its end.
C2_ResumeAfterPlayback == last = "resumeRecording" => clips = 0

\* C3: when stopTranslation has completed, playback has halted and no
\* resume-after-playback step is left to put the session back into recording.
C3_StopHaltsPlayback ==
  last = "stopTranslation_after" =>
    /\ clips = 0
    /\ \A t \in InFlight : t.m # "resumeRecording"

\* C4: at most one turn is open: at most one finalize-timeout is armed, it
\* is the one the handle names, and a response.created (also one that finds
\* the prior turn unfinalized) starts the new turn with no accumulated audio
\* and exactly its own timeout armed.
C4_OneOpenTurn ==
  /\ Cardinality(armedTimeouts) <= 1
  /\ armedTimeouts \subseteq {responseTimeout}
  /\ last \in {"response_created", "response_created_unfinalized"} =>
       /\ audioChunks = <<>>
       /\ isAccumulatingAudio
       /\ armedTimeouts = {responseTimeout}

\* a response.created arrived while the prior turn was unfinalized with audio
C4_Witness ==
  last = "response_created_unfinalized" /\ Cardinality(armedTimeouts) = 1

\* C5: a turn that gets no response.done does not stay in Translating: the
\* finalize-timeout ends it.
C5_TimeoutFinalizes == state.isTranslating ~> ~state.isTranslating

\* the timeout fired on a turn that had received deltas and no response.done
C5_Witness ==
  /\ last = "responseTimeout_fires"
  /\ ~state.isTranslating
  /\ ~isAccumulatingAudio
  /\ state.translatedText # <<>>

\* C6: audio is handed to the playback controller only from a turn that is
\* still accumulating, so no turn's audio is handed over twice.
C6_FinalizedOnce == [][Handed' > Handed => isAccumulatingAudio]_vars

\* C7: a socket close while a turn is streaming surfaces an error and
\* returns the session to Idle.
C7_CloseSurfaced ==
  [][(ws' = "CLOSED" /\ ws # "CLOSED" /\ state.isTranslating) =>
       (state'.error # "null" /\ Idle')]_vars

\* C8: once no setMode call is in flight, the mode is the one requested last.
C8_Serialized == ~SetModeInFlight => asm.currentMode = requested

\* C9: startTranslation while the session is Recording changes nothing: the
\* state and its texts stay, no task is started, no stream is acquired.
C9_SecondStartNoop ==
  [][(last' = "startTranslation" /\ state.isRecording) =>
       UNCHANGED <<state, rec, hw, asm, tasks>>]_vars

\* a second startTranslation found the session recording, with text shown
C9_Witness ==
  /\ last = "startTranslation"
  /\ state.isRecording
  /\ state.translatedText # <<>>
  /\ commands >= 2

\* C10: a startTranslation that threw leaves nothing half-started.
C10_FailsBackToIdle ==
  last = "startTranslation_failed" =>
    /\ ~state.isRecording
    /\ asm.currentMode # "recording"
    /\ ~rec.stream
    /\ ~rec.audioContext

\* C11: startTranslation invoked while the session is recording, translating
\* or playing starts nothing and changes neither the session state nor the
\* audio mode.
C11_StartOnlyFromIdle ==
  [][(last' = "startTranslation" /\ ~Idle) =>
       UNCHANGED <<state, rec, hw, asm, tasks>>]_vars

\* C12: when stopTranslation completes on a session that was recording or
\* translating, capture is off, the three flags are false, no chunk is
\* pending, no finalize-timeout is armed and the audio mode is idle.
C12_StopReturnsToIdle ==
  [][(last' = "stopTranslation_after"
      /\ (state.isRecording \/ state.isTranslating)) =>
       (/\ ~Capturing'
        /\ Idle'
        /\ audioChunks' = <<>>
        /\ armedTimeouts' = {}
        /\ asm'.currentMode = "idle")]_vars

\* the steps that run handleError, with the messages they pass
ErrorMessages ==
  [error_message |-> {"api"},
   ws_onerror |-> {"WebSocket"},
   startTranslation_failed |-> {"AudioContext", "NotAllowed"},
   stopRecording_closeFails |-> {"close"},
   speakTranslation_failed |-> {"speech"},
   initialize_denied |-> {"permission"},
   connect_failed |-> {"token"}]

\* C13: after every step that ran handleError the finalize-timeout is
\* cancelled, the accumulated audio is dropped, the three flags are false and
\* the error shown is the message of that error.
C13_ErrorLeavesIdle ==
  last \in DOMAIN ErrorMessages =>
    /\ armedTimeouts = {}
    /\ responseTimeout = NoTimer
    /\ audioChunks = <<>>
    /\ ~isAccumulatingAudio
    /\ Idle
    /\ state.error \in ErrorMessages[last]

\* a remote error event ended a turn that had streamed text
C13_Witness ==
  /\ last = "error_message"
  /\ state.error = "api"
  /\ state.translatedText # <<>>
  /\ inbound >= 3

\* C14: when connect has failed, initialize completes with the error shown.
C14_ConnectFailureReported ==
  [][(last = "connect_failed" /\ last' = "initialize_connected") =>
       state'.error # "null"]_vars

\* C15: a microphone grant to a startTranslation that stopTranslation has
\* overtaken (stopTranslation completed while the start awaited the grant)
\* leaves capture off, no microphone held and isRecording false.
C15_StopDuringStart ==
  [][(/\ last = "stopTranslation_after"
      /\ last' = "startRecording_granted"
      /\ \E t \in InFlight : t.pc = "st_gum" /\ tasks' = Retire(tasks, t)) =>
       (~Capturing' /\ hw'.mic = 0 /\ ~state'.isRecording)]_vars

\* C16: a connect that settles after stop has run disconnect (stop completed
\* while connect awaited the token) leaves no socket open or connecting.
C16_DisconnectDuringConnect ==
  [][(last = "stop_mode" /\ last' = "connect_token") =>
       ws' \notin {"CONNECTING", "OPEN"}]_vars

\* C17: when speakTranslation has started the speech, capture is off.
C17_SpeakStopsCapture ==
  (last \in {"speakTranslation_mode", "speakNepali_stopped"} /\ speech) =>
    ~Capturing

\* C18: a playAccumulatedAudio resumed by the promise of playAudioBuffer for
\* a playable buffer finds the controller no longer playing.
C18_ResolvesAtCompletion ==
  \A t \in InFlight :
    (t.pc = "pa_played" /\ playable(t.payload)) => ~tts.isPlaying

\* C19: while a turn is open its target text changes only by a text delta
\* appended at its end, so the finalized text is the deltas in arrival order.
C19_TextInArrivalOrder ==
  [][(/\ state.isTranslating
      /\ state'.isTranslating
      /\ state'.translatedText # state.translatedText) =>
       (/\ last' = "response_text_delta"
        /\ \E delta \in TextDeltas :
             state'.translatedText = Append(state.translatedText, delta))]_vars

\* C20: while a turn accumulates, its chunk list changes only by an arriving
\* audio delta appended at its end or by the reset of a new response.created,
\* so the buffer handed over at response.done is the turn's deltas in arrival
\* order.
C20_AudioInArrivalOrder ==
  [][(/\ isAccumulatingAudio
      /\ isAccumulatingAudio'
      /\ audioChunks' # audioChunks) =>
       \/ /\ last' = "response_audio_delta"
          /\ \E delta \in AudioDeltas :
               audioChunks' = accumulateAudioChunk(audioChunks, delta)
       \/ /\ last' \in {"response_created", "response_created_unfinalized"}
          /\ audioChunks' = <<>>]_vars

\* C21: an error event whose message contains 'buffer too small' or
\* 'Expected at least 100ms' leaves the three flags, both texts, the error
\* field, the accumulated audio and the armed finalize-timeout as they were.
C21_BenignErrorIgnored ==
  [][last' = "error_benign" =>
       UNCHANGED <<state, audioChunks, isAccumulatingAudio, responseTimeout,
                   armedTimeouts>>]_vars

\* a benign error event arrived in a recording session whose turn had
\* accumulated audio and armed its timeout
C21_Witness ==
  /\ last = "error_benign"
  /\ state.isRecording
  /\ state.isTranslating
  /\ audioChunks # <<>>
  /\ armedTimeouts # {}

\* C22: every input_audio_buffer.append on the wire decodes, the way the
\* assembler decodes an audio delta, to exactly the bytes sendAudioData was
\* given, whatever their number.
C22_RoundTrip ==
  \A i \in DOMAIN wire.sent :
    wire.sent[i].type = "input_audio_buffer.append" =>
      decodedBytes(wire.sent[i].audio) = wire.sent[i].pcm

\* a chunk spanning two sub-chunks with a remainder was sent, with bytes
\* that exercise the high and the low bits
C22_Witness ==
  /\ last = "sendAudioData"
  /\ wire.sent # <<>>
  /\ wire.sent[Len(wire.sent)].pcm = <<255, 0, 90>>

\* the GA and the beta spelling of each event, with the payloads it carries
Synonyms ==
  {<<g, b, p>> \in (TextDeltaTypes \X TextDeltaTypes \X TextDeltas)
                 \cup (TranscriptDeltaTypes \X TranscriptDeltaTypes
                       \X TextDeltas)
                 \cup (AudioDeltaTypes \X AudioDeltaTypes \X AudioDeltas)
                 \cup (ItemTypes \X ItemTypes \X ItemContents) : g # b}

\* C23: in every state the session can be in, an event has the same effect
\* on the session state and on the accumulated playback payload under either
\* of its two spellings.
C23_TagSynonyms ==
  \A e \in Synonyms :
    handleRealtimeMessage(e[1], e[3], Assembler)
      = handleRealtimeMessage(e[2], e[3], Assembler)

\* an audio delta was accumulated in a turn that also streamed text
C23_Witness ==
  /\ last = "response_audio_delta"
  /\ isAccumulatingAudio
  /\ audioChunks # <<>>
  /\ state.translatedText # <<>>
  /\ handleRealtimeMessage("response.text.delta", "Hello", Assembler)
       # Assembler

\* C24: data that cannot be parsed changes nothing but the count of
\* messages received: the session state, the turn, the socket and the tasks
\* stay as they were and no error is shown; and the messages that follow are
\* still handled.
C24_MalformedDropped ==
  /\ [][last' = "ws_onmessage_malformed" =>
          (/\ UNCHANGED <<state, turnVars, captureVars, playVars, modeVars,
                          ws, wire, tasks>>
           /\ ws' = "OPEN")]_vars
  /\ []((last = "ws_onmessage_malformed" /\ inbound < InboundBudget) =>
          (ENABLED speech_started /\ ENABLED error_message))

\* unparseable data arrived in the middle of a turn that had accumulated
\* audio, with messages still to follow
C24_Witness ==
  /\ last = "ws_onmessage_malformed"
  /\ isAccumulatingAudio
  /\ audioChunks # <<>>
  /\ state.error = "null"
  /\ inbound < InboundBudget

\* the outbound commands of the gateway
OutboundCommands ==
  {"sendAudioData", "commitAudioBuffer", "clearAudioBuffer",
   "requestTranslation"}

\* C25: an outbound command invoked while the socket is not open (none yet,
\* connecting, closed, or dropped by disconnect) sends nothing and leaves
\* the gateway and the session as they were.
C25_NotOpenNoop ==
  [][(last' \in OutboundCommands /\ ws # "OPEN") =>
       UNCHANGED <<ws, wire, tasks, state, turnVars>>]_vars

\* a command was invoked on a socket that had been open, had carried a
\* message, and was closed
C25_Witness ==
  /\ last \in OutboundCommands
  /\ ws = "CLOSED"
  /\ wire.sent # <<>>

\* C26: when stopRecording has returned or thrown after a teardown step
\* failed, the stream, the audio context and the processing nodes are
\* released.
C26_TeardownReleases ==
  last \in {"stopRecording_closed", "stopRecording_closeFails",
            "playAccumulatedAudio_closeFails"} =>
    /\ ~rec.stream
    /\ ~rec.audioContext
    /\ ~rec.processor
    /\ ~rec.analyser

\* the messages of a type in a log
RECURSIVE CountType(_, _)
CountType(sent, type) ==
  IF sent = <<>> THEN 0
  ELSE (IF Head(sent).type = type THEN 1 ELSE 0)
       + CountType(Tail(sent), type)

\* C27: on an open connection the first outbound message is the
\* session.update, and it is the only one.
C27_ConfiguredFirst ==
  ws = "OPEN" =>
    /\ wire.sent # <<>>
    /\ wire.sent[1].type = "session.update"
    /\ CountType(wire.sent, "session.update") = 1

\* C28: however often and in whichever connection state disconnect is
\* invoked, the gateway holds no socket afterwards, a disconnect that finds
\* no socket does nothing, and close() is called at most once on a socket.
C28_DisconnectIdempotent ==
  /\ [][last' \in {"disconnect", "disconnect_none"} =>
          (/\ ws' = "null"
           /\ ws = "null" => UNCHANGED <<ws, wire>>
           /\ UNCHANGED <<state, turnVars, tasks>>)]_vars
  /\ [](wire.closes <= 1)

\* disconnect was invoked a second time after it had closed a socket that
\* had been open
C28_Witness ==
  /\ last = "disconnect_none"
  /\ ws = "null"
  /\ wire.closes = 1
  /\ wire.sent # <<>>

\* C29: the response.created that follows a finished turn starts the new
\* turn with an empty target text.
C29_TextResetAtNextTurn ==
  [][(/\ last = "response_done"
      /\ last' \in {"response_created", "response_created_unfinalized"}) =>
       state'.translatedText = <<>>]_vars

\* C30: the audio mode mirrors the use of the hardware: recording (or
\* duplex) while capture is active, playback (or duplex) while turn audio or
\* speech sounds, and idle when neither is active and no command is in
\* flight.
C30_ModeMirrorsHardware ==
  /\ Capturing => asm.currentMode \in {"recording", "duplex"}
  /\ Sounding => asm.currentMode \in {"playback", "duplex"}
  /\ (~Capturing /\ ~Sounding /\ tasks = EmptyBag) => asm.currentMode = "idle"

\* C31: a speech_started that arrives while a turn is streaming leaves the
\* three flags, the error field and the turn's target text, accumulated
\* audio and finalize-timeout as they were.
C31_SpeechStartedKeepsTurn ==
  [][(last' = "speech_started" /\ state.isTranslating) =>
       (/\ state'.isRecording = state.isRecording
        /\ state'.isTranslating = state.isTranslating
        /\ state'.isPlaying = state.isPlaying
        /\ state'.error = state.error
        /\ state'.translatedText = state.translatedText
        /\ UNCHANGED turnVars)]_vars

\* C32: an initialize called on an uninitialized manager ends, on either
\* platform, by returning with the manager initialized and in idle mode.
C32_InitializeTerminates ==
  last \in {"manager_initialize_returned", "manager_initialize_rejected"} =>
    /\ last = "manager_initialize_returned"
    /\ asm.isInitialized
    /\ asm.currentMode = "idle"

\* C33: at most one microphone stream and one capture audio context are
\* live, whatever startTranslation calls overlap.
C33_OneStream == hw.mic <= 1 /\ hw.ctx <= 1

\* C34: the end of a turn's playback hand-off leaves the audio that the
\* next turn has accumulated in the meantime as it is.
C34_NextTurnAudioKept ==
  [][(/\ last' \in {"playAccumulatedAudio_played",
                    "playAccumulatedAudio_failed",
                    "playAccumulatedAudio_closeFails"}
      /\ isAccumulatingAudio) =>
       audioChunks' = audioChunks]_vars

\* C35: whenever no call is in flight, isRecording is set exactly when the
\* capture pipeline is recording and holds the microphone stream.
C35_RecordingFlagAgrees ==
  tasks = EmptyBag =>
    (state.isRecording <=> (rec.isRecording /\ rec.stream))

\* C36: while isTranslating is set exactly one finalize-timeout is armed,
\* the one the handle names.
C36_TranslatingHasTimeout ==
  state.isTranslating =>
    /\ Cardinality(armedTimeouts) = 1
    /\ armedTimeouts = {responseTimeout}

\* a turn is streaming, its timeout armed, while the audio of the turn
\* before it is being handed to playback
C36_Witness ==
  /\ state.isTranslating
  /\ Cardinality(armedTimeouts) = 1
  /\ last = "playAccumulatedAudio_stopped"
  /\ inbound >= 4

\* C38: when stop() has completed nothing remains pending: no
\* finalize-timeout is armed and no resume-recording timer is waiting.
C38_NothingPendingAfterStop ==
  last = "stop_mode" =>
    /\ armedTimeouts = {}
    /\ \A t \in InFlight : t.m # "resumeRecording"

\* the input_audio_buffer.append messages a socket was given
Appended(log) ==
  Len(SelectSeq(log.sent, LAMBDA msg : msg.type = "input_audio_buffer.append"))

CaptureLabels == {"onaudioprocess_idle", "handleAudioData_dropped",
                  "handleAudioData_notConnected", "handleAudioData_sent"}

\* C37: a capture callback that runs while the orchestrator's isRecording is
\* false forwards nothing to the gateway: the chunk is dropped.
C37_NotRecordingDrops ==
  [][(last' \in CaptureLabels /\ ~state.isRecording) =>
       (/\ Appended(wire') = Appended(wire)
        /\ wire' = wire)]_vars

\* the capture pipeline, still running after an error event cleared the
\* orchestrator's flag, delivered a chunk on the open socket and it was dropped
C37_Witness ==
  /\ last = "handleAudioData_dropped"
  /\ rec.isRecording
  /\ ~state.isRecording
  /\ ws = "OPEN"

\* the rate limiter's responses to one address, in order
ResponsesTo(ip) == SelectSeq(responses, LAMBDA r : r.ip = ip)

\* Reads one address's responses window by window: a window opens with the
\* first request after the window before it ran out and lasts windowMs; in
\* it, the requests after the first maxRequests are answered 429 and no
\* others pass.
RECURSIVE WithinLimit(_, _, _)
WithinLimit(rs, resetTime, passes) ==
  IF rs = <<>> THEN TRUE
  ELSE LET r == Head(rs)
       IN IF r.at > resetTime
          THEN WithinLimit(Tail(rs), r.at + windowMs,
                           IF r.status = 429 THEN 0 ELSE 1)
          ELSE /\ passes >= maxRequests => r.status = 429
               /\ WithinLimit(Tail(rs), resetTime,
                              IF r.status = 429 THEN passes ELSE passes + 1)

\* C39: of the requests of one client identifier in one window of windowMs
\* at most maxRequests pass the rate limiter; every further one is answered
\* 429.
C39_AtMostMaxRequests ==
  \A ip \in Ips : WithinLimit(ResponsesTo(ip), 0 - 1, 0)

\* a client that used up its window was answered 429, and passed again once
\* the window was over
C39_Witness ==
  /\ last = "rateLimiter_first"
  /\ \E i \in 1..Len(responses) :
       /\ responses[i].status = 429
       /\ responses[i].ip = responses[Len(responses)].ip

====
